---- MODULE Spec2Model ----
(***************************************************************************)
(* Model of the command-line CRM of src/main.py: the sqlite store crm.db   *)
(* (five tables), the repository functions that insert into and scan it,   *)
(* the CSV exports, and the menu loop of main().  The store and the CSV    *)
(* files persist from one run of the process to the next; everything else  *)
(* is per-process state.                                                   *)
(***************************************************************************)
EXTENDS Integers, Sequences, FiniteSets, TLC

VARIABLES
    tables,      \* names of the relations that exist in crm.db
    user,        \* committed rows of table user, in rowid order
    product,     \* committed rows of table product
    support,     \* committed rows of table support
    customer,    \* committed rows of table customer
    ticket,      \* committed rows of table ticket
    files,       \* the three CSV files: absent, or header + lines
    pc,          \* position of the process in main()
    loginResult, \* what login() returned in this run: "none", "true", "false"
    menu,        \* last top-level menu input of this run ("" before any)
    choice,      \* last sub-menu input of this run ("" when none was read)
    lastOp,      \* repository function called by the last step ("none" if none)
    lastArgs,    \* arguments of that call
    out,         \* lines printed to stdout by the last step
    printed,     \* table rows displayed by the last step
    exc,         \* uncaught exception that ended the run ("none" if none)
    openConns,   \* connections of this run that are still open
    added        \* <<username, password>> pairs for which add_user succeeded

store == <<tables, user, product, support, customer, ticket>>
vars == <<tables, user, product, support, customer, ticket, files, pc,
          loginResult, menu, choice, lastOp, lastArgs, out, printed, exc,
          openConns, added>>

\* ---------------------------------------------------------------- bounds
MaxUsers == 2
MaxCustomers == 1
MaxProducts == 1
MaxSupports == 1

\* ---------------------------------------------------------------- inputs
Usernames == {"alice", "bob", "carol"}
Passwords == {"secret123", "wrong"}
ContactNos == {"555-0100"}
PurchaseHists == {"0"}
TicketHists == {"0"}
PaymentTypes == {"credit", "cash"}
ProjectTypes == {"software"}
Dates == {"2024-01-01"}
Ratings == {"5"}
Statuses == {"1"}
Managers == {"mgr"}
Reasons == {"broken"}
MenuInputs == {"1", "2", "3", "4", "9"}
ChoiceInputs == {"1", "2", "3", "4", "5", "9"}

TableNames == {"user", "product", "support", "customer", "ticket"}

\* ------------------------------------------------------- sqlite / hashlib
\* hashlib.sha224(password.encode()).hexdigest() on the passwords of the model.
sha224Collide(password) ==
    "8a73901c428f41be4383e371adbfee70a99b4989fd9c9466a111dae4"

sha224(password) ==
    CASE password = "secret123" ->
           "8a73901c428f41be4383e371adbfee70a99b4989fd9c9466a111dae4"
      [] password = "wrong" ->
           "2a53092b54226ef94589075248ed1cecdf2320b9356af63e0dfe8806"
      [] password = "x" ->
           "54a2f7f92a5f975d8096af77a126edda7da60c5aa872ef1b871701ae"

\* A stored value is <<storage class, text>>.  NULL is the value of a column
\* an INSERT does not name.
Null == <<"null", "">>

\* Text that sqlite reads as a well-formed integer literal.
IntegerText == {"0", "1", "5"}

\* Column affinity: a str bound to a column declared INTEGER, INT, DATE or
\* BOOLEAN is stored as an integer when it reads as one, as text otherwise;
\* a TEXT column keeps the str.
Affinity(decl, v) ==
    IF decl \in {"INTEGER", "INT", "DATE", "BOOLEAN"} /\ v \in IntegerText
    THEN <<"integer", v>>
    ELSE <<"text", v>>

\* AUTOINCREMENT primary key of the next row (no row is ever deleted).
NextId(rows) == Len(rows) + 1

\* CREATE TABLE IF NOT EXISTS: an existing relation keeps its rows.
CreateDropsRows(name, rows) == <<>>

CreateIfNotExists(name, rows) ==
    IF name \in tables THEN rows ELSE <<>>

\* username TEXT UNIQUE: the INSERT of add_user fails when the name is taken.
NoUniqueViolation(username) == FALSE

UniqueViolation(username) ==
    \E i \in 1..Len(user) : user[i].username = username

\* ------------------------------------------------------------ login()
LoginAnyPassword(username, password) ==
    \E i \in 1..Len(user) : user[i].username = username

login(username, password) ==
    \E i \in 1..Len(user) :
        /\ user[i].username = username
        /\ user[i].hashed_password = sha224(password)

\* ------------------------------------------------------------ CSV files
FileNames == {"customer_data.csv", "product_data.csv", "support_data.csv"}
Absent == [exists |-> FALSE, header |-> <<>>, lines |-> <<>>]

\* pandas writes None as an empty cell and every other value as its text.
CsvCell(v) == IF v[1] = "null" THEN "" ELSE v[2]

CustomerColumns ==
    <<"customer_id", "contact_no", "purchase_hist", "ticket_hist", "payment_type">>
ProductColumns == <<"project_id", "project_type", "project_date", "project_rating">>
SupportColumns == <<"ticket_id", "project_type", "ticket_date", "ticket_status">>

\* Number of columns SELECT * returns for each exported table.
Width(name) ==
    CASE name = "customer" -> 5
      [] name = "product" -> 4
      [] name = "support" -> 5

CustomerLine(r) ==
    <<ToString(r.customer_id), CsvCell(r.contact_no), CsvCell(r.purchase_hist),
      CsvCell(r.ticket_hist), CsvCell(r.payment_type)>>
ProductLine(r) ==
    <<ToString(r.project_id), CsvCell(r.project_type), CsvCell(r.project_date),
      CsvCell(r.project_rating)>>

\* ------------------------------------------------------------ messages
TryAgain == "Invalid option. Please try again."
InvalidInput == "Invalid input. Exiting..."

\* ---------------------------------------------------------------- Init
\* crm.db is either missing (a fresh store) or was provisioned with the five
\* tables and one operator account, which is the only way a first login can
\* succeed.
SeedUser ==
    [id |-> 1, username |-> "alice", hashed_password |-> sha224("secret123")]

Init ==
    /\ \/ tables = {} /\ user = <<>>
       \/ tables = TableNames /\ user = <<SeedUser>>
    /\ product = <<>>
    /\ support = <<>>
    /\ customer = <<>>
    /\ ticket = <<>>
    /\ files = [f \in FileNames |-> Absent]
    /\ pc = "start"
    /\ loginResult = "none"
    /\ menu = ""
    /\ choice = ""
    /\ lastOp = "none"
    /\ lastArgs = <<>>
    /\ out = <<>>
    /\ printed = <<>>
    /\ exc = "none"
    /\ openConns = 0
    /\ added = {}

\* ------------------------------------------------------- create_table()
create_table ==
    /\ pc = "start"
    /\ user' = CreateIfNotExists("user", user)
    /\ product' = CreateIfNotExists("product", product)
    /\ support' = CreateIfNotExists("support", support)
    /\ customer' = CreateIfNotExists("customer", customer)
    /\ ticket' = CreateIfNotExists("ticket", ticket)
    /\ tables' = tables \cup TableNames
    /\ pc' = "prompt"
    /\ lastOp' = "create_table"
    /\ lastArgs' = <<>>
    /\ UNCHANGED <<files, loginResult, menu, choice, out, printed, exc,
                   openConns, added>>

\* ------------------------------------------- main(): the login gate
\* Line 484: the branch that ends the run.
LoginFailedNever(result) == FALSE

LoginFailed(result) == result = FALSE

MainLogin ==
    /\ pc = "prompt"
    /\ \E username \in Usernames, password \in Passwords :
         LET result == login(username, password) IN
         /\ loginResult' = IF result THEN "true" ELSE "false"
         /\ lastArgs' = <<username, password>>
         /\ IF LoginFailed(result)
            THEN /\ out' = <<"Invalid username or password">>
                 /\ pc' = "done"
            ELSE /\ out' = <<"Welcome">>
                 /\ pc' = "menu"
    /\ lastOp' = "login"
    /\ UNCHANGED <<tables, user, product, support, customer, ticket, files,
                   menu, choice, printed, exc, openConns, added>>

\* --------------------------------------------- repository: create
\* Each function yields what it leaves behind: the committed rows of its
\* table, the exception it raised ("none" when it returned), the lines it
\* printed, the rows it displayed, and the connections it left unclosed.
\* INSERT OR REPLACE in place of INSERT: a taken username gets the new hash.
add_userOrReplace(username, password) ==
    IF UniqueViolation(username)
    THEN [rows |-> [i \in 1..Len(user) |->
                      IF user[i].username = username
                      THEN [user[i] EXCEPT !.hashed_password = sha224(password)]
                      ELSE user[i]],
          raised |-> "none", lines |-> <<"User added successfully.">>,
          shown |-> <<>>, unclosed |-> 0]
    ELSE [rows |-> Append(user, [id |-> NextId(user),
                                 username |-> username,
                                 hashed_password |-> sha224(password)]),
          raised |-> "none", lines |-> <<"User added successfully.">>,
          shown |-> <<>>, unclosed |-> 0]

add_user(username, password) ==
    LET hashed_password == sha224(password) IN
    IF UniqueViolation(username)
    THEN [rows |-> user, raised |-> "IntegrityError", lines |-> <<>>,
          shown |-> <<>>, unclosed |-> 1]
    ELSE [rows |-> Append(user, [id |-> NextId(user),
                                 username |-> username,
                                 hashed_password |-> hashed_password]),
          raised |-> "none", lines |-> <<"User added successfully.">>,
          shown |-> <<>>, unclosed |-> 0]

add_customer(contact_no, purchase_hist, ticket_hist, payment_type) ==
    [rows |-> Append(customer,
                 [customer_id |-> NextId(customer),
                  contact_no |-> Affinity("INT", contact_no),
                  purchase_hist |-> Affinity("INTEGER", purchase_hist),
                  ticket_hist |-> Affinity("INTEGER", ticket_hist),
                  payment_type |-> Affinity("TEXT", payment_type)]),
     raised |-> "none", lines |-> <<"Customer added successfully.">>,
     shown |-> <<>>, unclosed |-> 0]

\* No conn.close(): the connection is left to the garbage collector.
add_product(project_type, project_date, project_rating) ==
    [rows |-> Append(product,
                 [project_id |-> NextId(product),
                  project_type |-> Affinity("TEXT", project_type),
                  project_date |-> Affinity("DATE", project_date),
                  project_rating |-> Affinity("INTEGER", project_rating)]),
     raised |-> "none", lines |-> <<"Product added successfully.">>,
     shown |-> <<>>, unclosed |-> 1]

add_support(ticket_manager, ticket_date, ticket_status) ==
    [rows |-> Append(support,
                 [ticket_id |-> Null,
                  project_id |-> Null,
                  ticket_date |-> Affinity("DATE", ticket_date),
                  ticket_status |-> Affinity("BOOLEAN", ticket_status),
                  ticket_manager |-> Affinity("TEXT", ticket_manager)]),
     raised |-> "none", lines |-> <<"Support added successfully.">>,
     shown |-> <<>>, unclosed |-> 1]

\* Positional parameters of add_support, and the number of arguments the
\* call inside add_ticket passes.
AddSupportArity == 3
AddSupportArgsPassed == 0

\* The INSERT runs in the connection's open transaction; add_support() is
\* called before conn.commit(), and a TypeError there leaves the transaction
\* uncommitted, so the row is rolled back when the connection goes away.
add_ticket(ticket_date, ticket_status, ticket_reason) ==
    LET inserted == Append(ticket,
                        [customer_id |-> Null,
                         ticket_id |-> NextId(ticket),
                         project_id |-> Null,
                         ticket_date |-> Affinity("DATE", ticket_date),
                         ticket_status |-> Affinity("BOOLEAN", ticket_status),
                         ticket_reason |-> Affinity("TEXT", ticket_reason)])
    IN
    IF AddSupportArgsPassed # AddSupportArity
    THEN [rows |-> ticket, raised |-> "TypeError", lines |-> <<>>,
          shown |-> <<>>, unclosed |-> 1]
    ELSE [rows |-> inserted, raised |-> "none",
          lines |-> <<"Support added successfully.", "Ticket added successfully">>,
          shown |-> <<>>, unclosed |-> 2]

\* ----------------------------------------------- repository: read
\* fetch_data(table_name): SELECT * FROM table_name, close, func(rows).
fetch_data(table_name) ==
    CASE table_name = "customer" -> customer
      [] table_name = "product" -> product
      [] table_name = "support" -> support

\* The body shared by the three print consumers.
PrintRows(rows, none_found) ==
    [rows |-> rows, raised |-> "none",
     lines |-> IF rows # <<>> THEN <<>> ELSE <<none_found>>,
     shown |-> rows, unclosed |-> 0]

print_customer == PrintRows(fetch_data("customer"), "No customer found.")
print_product == PrintRows(fetch_data("product"), "No product found.")
print_support == PrintRows(fetch_data("support"), "No support found.")

view_customer_given_payment_type(payment_type) ==
    LET rows == SelectSeq(customer,
                    LAMBDA r : r.payment_type = Affinity("TEXT", payment_type))
    IN [rows |-> customer, raised |-> "none",
        lines |-> IF rows # <<>> THEN <<payment_type>>
                                 ELSE <<payment_type, "No customer found.">>,
        shown |-> rows, unclosed |-> 0]

\* ----------------------------------------------- repository: export
SupportLine(r) ==
    <<CsvCell(r.ticket_id), CsvCell(r.project_id), CsvCell(r.ticket_date),
      CsvCell(r.ticket_status), CsvCell(r.ticket_manager)>>

\* df.columns = [...] raises ValueError (length mismatch) unless there is one
\* name per column of the frame.
ColumnsFit(columns, width) == Len(columns) = width

\* The body shared by the three export consumers: the file they leave, the
\* exception raised, the lines printed.
ToCsv(old, rows, columns, width, lines, exported, no_data) ==
    IF rows # <<>>
    THEN IF ColumnsFit(columns, width)
         THEN [file |-> [exists |-> TRUE, header |-> columns,
                         lines |-> lines],
               raised |-> "none", lines |-> <<exported>>]
         ELSE [file |-> old, raised |-> "ValueError", lines |-> <<>>]
    ELSE [file |-> old, raised |-> "none", lines |-> <<no_data>>]

customer_to_csv ==
    ToCsv(files["customer_data.csv"], fetch_data("customer"), CustomerColumns,
          Width("customer"),
          [i \in 1..Len(customer) |-> CustomerLine(customer[i])],
          "Customer data successsfully exported to customer_data.csv",
          "No customer data to export.")

product_to_csv ==
    ToCsv(files["product_data.csv"], fetch_data("product"), ProductColumns,
          Width("product"),
          [i \in 1..Len(product) |-> ProductLine(product[i])],
          "Product data successsfully exported to product_data.csv",
          "No product data to export.")

support_to_csv ==
    ToCsv(files["support_data.csv"], fetch_data("support"), SupportColumns,
          Width("support"),
          [i \in 1..Len(support) |-> SupportLine(support[i])],
          "Support data successsfully exported to support_data.csv",
          "No support data to export.")

\* ------------------------------------------------ main(): menu loop
\* What one pass of the while loop leaves behind once its sub-menu branch has
\* run: an uncaught exception ends the process; `break` ends the loop; in
\* every other case control reaches `if menu == '4' ... else`, which prints
\* the try-again line and loops.  A connection that a function did not
\* close() stays open until the garbage collector finalizes it, which may
\* happen by the end of any later pass or not at all; a connection whose
\* frame an uncaught exception holds stays open until the process exits.
EndOfPass(m, c, op, args, raised, lines, shown, unclosed, break) ==
    /\ menu' = m
    /\ choice' = c
    /\ lastOp' = op
    /\ lastArgs' = args
    /\ exc' = raised
    /\ printed' = shown
    /\ IF raised # "none"
       THEN /\ pc' = "crashed"
            /\ out' = lines
            /\ openConns' = openConns + unclosed
       ELSE /\ \E reclaimed \in 0..(openConns + unclosed) :
                 openConns' = openConns + unclosed - reclaimed
            /\ IF break
               THEN pc' = "done" /\ out' = lines \o <<InvalidInput>>
               ELSE pc' = "menu" /\ out' = lines \o <<TryAgain>>

Called(m, c, op, args, r) ==
    EndOfPass(m, c, op, args, r.raised, r.lines, r.shown, r.unclosed, FALSE)

\* menu '1', choice '1'
MenuAddCustomer ==
    /\ pc = "menu"
    /\ Len(customer) < MaxCustomers
    /\ \E contact_no \in ContactNos, purchase_hist \in PurchaseHists,
          ticket_hist \in TicketHists, payment_type \in PaymentTypes :
         LET r == add_customer(contact_no, purchase_hist, ticket_hist, payment_type)
         IN /\ customer' = r.rows
            /\ Called("1", "1", "add_customer",
                      <<contact_no, purchase_hist, ticket_hist, payment_type>>, r)
    /\ UNCHANGED <<tables, user, product, support, ticket, files, loginResult,
                   added>>

\* menu '1', choice '2'
MenuAddProduct ==
    /\ pc = "menu"
    /\ Len(product) < MaxProducts
    /\ \E project_type \in ProjectTypes, project_date \in Dates,
          project_rating \in Ratings :
         LET r == add_product(project_type, project_date, project_rating)
         IN /\ product' = r.rows
            /\ Called("1", "2", "add_product",
                      <<project_type, project_date, project_rating>>, r)
    /\ UNCHANGED <<tables, user, support, customer, ticket, files, loginResult,
                   added>>

\* menu '1', choice '3'
MenuAddSupport ==
    /\ pc = "menu"
    /\ Len(support) < MaxSupports
    /\ \E ticket_date \in Dates, ticket_status \in Statuses,
          ticket_manager \in Managers :
         LET r == add_support(ticket_manager, ticket_date, ticket_status)
         IN /\ support' = r.rows
            /\ Called("1", "3", "add_support",
                      <<ticket_manager, ticket_date, ticket_status>>, r)
    /\ UNCHANGED <<tables, user, product, customer, ticket, files, loginResult,
                   added>>

\* menu '1', choice '4'
MenuAddTicket ==
    /\ pc = "menu"
    /\ \E ticket_reason \in Reasons, ticket_date \in Dates,
          ticket_status \in Statuses :
         LET r == add_ticket(ticket_date, ticket_status, ticket_reason)
         IN /\ ticket' = r.rows
            /\ Called("1", "4", "add_ticket",
                      <<ticket_date, ticket_status, ticket_reason>>, r)
    /\ UNCHANGED <<tables, user, product, support, customer, files,
                   loginResult, added>>

\* menu '1', choice '5'
MenuAddUser ==
    /\ pc = "menu"
    /\ \E new_username \in Usernames, new_password \in Passwords :
         LET r == add_user(new_username, new_password)
         IN /\ r.raised = "none" => Len(user) < MaxUsers
            /\ user' = r.rows
            /\ added' = IF r.raised = "none"
                        THEN added \cup {<<new_username, new_password>>}
                        ELSE added
            /\ Called("1", "5", "add_user", <<new_username, new_password>>, r)
    /\ UNCHANGED <<tables, product, support, customer, ticket, files,
                   loginResult>>

\* The `else` branches of the add and print sub-menus: the choices that
\* print the invalid-input line and break.
AddBreaksNever(c) == FALSE

AddBreaks(c) == c \notin {"1", "2", "3", "4", "5"}

PrintBreaks(c) == c \notin {"1", "2", "3", "4"}

\* The `else` of the export sub-menu belongs to `if choice == "3"` alone.
ExportBreaks(c) == c # "3"

\* menu '1', any other choice
MenuAddInvalid ==
    /\ pc = "menu"
    /\ \E c \in ChoiceInputs :
         /\ c \notin {"1", "2", "3", "4", "5"}
         /\ EndOfPass("1", c, "none", <<>>, "none", <<>>, <<>>, 0, AddBreaks(c))
    /\ UNCHANGED <<tables, user, product, support, customer, ticket, files,
                   loginResult, added>>

\* menu '2', choice '1'
MenuPrintCustomer ==
    /\ pc = "menu"
    /\ Called("2", "1", "print_customer", <<>>, print_customer)
    /\ UNCHANGED <<tables, user, product, support, customer, ticket, files,
                   loginResult, added>>

\* menu '2', choice '2'
MenuPrintProduct ==
    /\ pc = "menu"
    /\ Called("2", "2", "print_product", <<>>, print_product)
    /\ UNCHANGED <<tables, user, product, support, customer, ticket, files,
                   loginResult, added>>

\* Line 541 is the bare name `print_support`: the function object is
\* evaluated and dropped, never called.
PrintSupportCalled == FALSE

\* menu '2', choice '3'
MenuPrintSupport ==
    /\ pc = "menu"
    /\ IF PrintSupportCalled
       THEN Called("2", "3", "print_support", <<>>, print_support)
       ELSE EndOfPass("2", "3", "none", <<>>, "none", <<>>, <<>>, 0, FALSE)
    /\ UNCHANGED <<tables, user, product, support, customer, ticket, files,
                   loginResult, added>>

\* menu '2', choice '4'
MenuViewPaymentType ==
    /\ pc = "menu"
    /\ \E payment_type \in PaymentTypes :
         Called("2", "4", "view_customer_given_payment_type", <<payment_type>>,
                view_customer_given_payment_type(payment_type))
    /\ UNCHANGED <<tables, user, product, support, customer, ticket, files,
                   loginResult, added>>

\* menu '2', any other choice
MenuPrintInvalid ==
    /\ pc = "menu"
    /\ \E c \in ChoiceInputs :
         /\ c \notin {"1", "2", "3", "4"}
         /\ EndOfPass("2", c, "none", <<>>, "none", <<>>, <<>>, 0, PrintBreaks(c))
    /\ UNCHANGED <<tables, user, product, support, customer, ticket, files,
                   loginResult, added>>

\* menu '3': three separate `if`s, the last one with the `else`.
MenuExport ==
    /\ pc = "menu"
    /\ \E c \in ChoiceInputs :
         LET op == CASE c = "1" -> "customer_to_csv"
                     [] c = "2" -> "product_to_csv"
                     [] c = "3" -> "support_to_csv"
                     [] OTHER -> "none"
             r == CASE c = "1" -> customer_to_csv
                    [] c = "2" -> product_to_csv
                    [] c = "3" -> support_to_csv
                    [] OTHER -> [file |-> Absent, raised |-> "none",
                                 lines |-> <<>>]
             f == CASE c = "1" -> "customer_data.csv"
                    [] c = "2" -> "product_data.csv"
                    [] c = "3" -> "support_data.csv"
                    [] OTHER -> ""
         IN /\ files' = IF op = "none" THEN files
                        ELSE [files EXCEPT ![f] = r.file]
            /\ EndOfPass("3", c, op, <<>>, r.raised, r.lines, <<>>, 0,
                         ExportBreaks(c))
    /\ UNCHANGED <<tables, user, product, support, customer, ticket,
                   loginResult, added>>

\* menu '4'
MenuExit ==
    /\ pc = "menu"
    /\ menu' = "4"
    /\ choice' = ""
    /\ lastOp' = "none"
    /\ lastArgs' = <<>>
    /\ out' = <<"Exiting...">>
    /\ printed' = <<>>
    /\ pc' = "done"
    /\ UNCHANGED <<tables, user, product, support, customer, ticket, files,
                   loginResult, exc, openConns, added>>

\* any other top-level input: none of the four `if`s matches but the last
\* one's `else`.
MenuInvalid ==
    /\ pc = "menu"
    /\ \E m \in MenuInputs :
         /\ m \notin {"1", "2", "3", "4"}
         /\ EndOfPass(m, "", "none", <<>>, "none", <<>>, <<>>, 0, FALSE)
    /\ UNCHANGED <<tables, user, product, support, customer, ticket, files,
                   loginResult, added>>

\* A new run of the process: crm.db and the CSV files are what is left.
Restart ==
    /\ pc \in {"done", "crashed"}
    /\ pc' = "start"
    /\ loginResult' = "none"
    /\ menu' = ""
    /\ choice' = ""
    /\ lastOp' = "none"
    /\ lastArgs' = <<>>
    /\ out' = <<>>
    /\ printed' = <<>>
    /\ exc' = "none"
    /\ openConns' = 0
    /\ UNCHANGED <<tables, user, product, support, customer, ticket, files,
                   added>>

Next ==
    \/ create_table
    \/ MainLogin
    \/ MenuAddCustomer
    \/ MenuAddProduct
    \/ MenuAddSupport
    \/ MenuAddTicket
    \/ MenuAddUser
    \/ MenuAddInvalid
    \/ MenuPrintCustomer
    \/ MenuPrintProduct
    \/ MenuPrintSupport
    \/ MenuViewPaymentType
    \/ MenuPrintInvalid
    \/ MenuExport
    \/ MenuExit
    \/ MenuInvalid
    \/ Restart

Spec == Init /\ [][Next]_vars

\* ================================================================ claims
HasRow(username) == \E i \in 1..Len(user) : user[i].username = username

AddOps == {"add_customer", "add_product", "add_support", "add_ticket", "add_user"}
PrintOps == {"print_customer", "print_product", "print_support",
             "view_customer_given_payment_type"}
ExportOps == {"customer_to_csv", "product_to_csv", "support_to_csv"}

\* The options each sub-menu lists.
Listed(m) ==
    CASE m = "1" -> {"1", "2", "3", "4", "5"}
      [] m = "2" -> {"1", "2", "3", "4"}
      [] m = "3" -> {"1", "2", "3"}

\* C1: once add_user(u, p) has succeeded, login(u, p) is true and login(u, q)
\* is false for every other password q, in every later state and for the
\* login call main() makes; login(v, x) is false for every username v that
\* has no row in the user table.
C1_LoginAfterAddUser ==
    /\ \A ua \in added :
         /\ login(ua[1], ua[2])
         /\ \A q \in Passwords \ {ua[2]} : ~login(ua[1], q)
    /\ \A v \in Usernames, x \in Passwords : ~HasRow(v) => ~login(v, x)
    /\ lastOp = "login" =>
         /\ lastArgs \in added => loginResult = "true"
         /\ (\E p \in Passwords \ {lastArgs[2]} : <<lastArgs[1], p>> \in added)
               => loginResult = "false"
         /\ ~HasRow(lastArgs[1]) => loginResult = "false"

\* A later run logs in with credentials that add_user stored.
C1_Witness ==
    /\ lastOp = "login"
    /\ lastArgs \in added
    /\ loginResult = "true"
    /\ \E v \in Usernames : ~HasRow(v)

\* C2: add_user with a username that already has a row raises the constraint
\* violation and leaves the user table as it was: same number of rows, same
\* stored hash, so every password logs in exactly as before the call (the
\* original still does, the second call's password still does not).
C2_DuplicateUserRejected ==
    [][\A u \in Usernames, p2 \in Passwords :
         (/\ pc = "menu"
          /\ lastOp' = "add_user"
          /\ lastArgs' = <<u, p2>>
          /\ \E i \in 1..Len(user) : user[i].username = u)
         => /\ exc' = "IntegrityError"
            /\ Len(user') = Len(user)
            /\ user' = user
            /\ \A p \in Passwords : login(u, p)' = login(u, p)
            /\ \E p \in Passwords : login(u, p) /\ login(u, p)'
            /\ ~login(u, p2) => ~login(u, p2)'
      ]_vars

\* A duplicate add_user whose password differs from the stored one was refused.
C2_Witness ==
    /\ lastOp = "add_user"
    /\ exc = "IntegrityError"
    /\ HasRow(lastArgs[1])
    /\ ~login(lastArgs[1], lastArgs[2])
    /\ Len(user) = 1

\* C3: when 'Add a user' is given a username that already exists, the failure
\* is reported and the menu loop continues: the session is back at the
\* top-level menu.
C3_ConstraintViolationLoopContinues ==
    [][(/\ pc = "menu"
        /\ lastOp' = "add_user"
        /\ \E i \in 1..Len(user) : user[i].username = lastArgs'[1])
       => /\ pc' = "menu"
          /\ out' # <<>>
      ]_vars

\* C4: each of the five create operations, with no constraint violated,
\* commits exactly one new row to its own table, carrying the values it was
\* given, and prints its success line.
C4_CreateInsertsOneRow ==
    [][(pc = "menu" /\ lastOp' \in AddOps) =>
         /\ lastOp' = "add_customer" =>
              /\ Len(customer') = Len(customer) + 1
              /\ SubSeq(customer', 1, Len(customer)) = customer
              /\ "Customer added successfully." \in {out'[i] : i \in DOMAIN out'}
         /\ lastOp' = "add_product" =>
              /\ Len(product') = Len(product) + 1
              /\ SubSeq(product', 1, Len(product)) = product
              /\ "Product added successfully." \in {out'[i] : i \in DOMAIN out'}
         /\ lastOp' = "add_support" =>
              /\ Len(support') = Len(support) + 1
              /\ SubSeq(support', 1, Len(support)) = support
              /\ "Support added successfully." \in {out'[i] : i \in DOMAIN out'}
         /\ (lastOp' = "add_user" /\ ~HasRow(lastArgs'[1])) =>
              /\ Len(user') = Len(user) + 1
              /\ SubSeq(user', 1, Len(user)) = user
              /\ "User added successfully." \in {out'[i] : i \in DOMAIN out'}
         /\ lastOp' = "add_ticket" =>
              /\ Len(ticket') = Len(ticket) + 1
              /\ SubSeq(ticket', 1, Len(ticket)) = ticket
              /\ ticket'[Len(ticket')].ticket_date[2] = lastArgs'[1]
              /\ ticket'[Len(ticket')].ticket_status[2] = lastArgs'[2]
              /\ ticket'[Len(ticket')].ticket_reason[2] = lastArgs'[3]
              /\ "Ticket added successfully" \in {out'[i] : i \in DOMAIN out'}
      ]_vars

\* C5: create_table ends with exactly the five relations, and on a store
\* that already has them it leaves the rows of every table as they were.
C5_CreateTableIdempotent ==
    [][(pc = "start" /\ lastOp' = "create_table") =>
         /\ tables' = TableNames
         /\ tables = TableNames =>
              <<user, product, support, customer, ticket>>'
                 = <<user, product, support, customer, ticket>>
      ]_vars

\* create_table has just run on a store that held rows in four tables.
C5_Witness ==
    /\ lastOp = "create_table"
    /\ pc = "prompt"
    /\ Len(user) = 2
    /\ customer # <<>>
    /\ product # <<>>
    /\ support # <<>>

\* C6: an export of a table that holds at least one row does not raise and
\* leaves that entity's CSV file with its header and one line per row.
C6_ExportWritesFile ==
    [][(pc = "menu" /\ lastOp' \in ExportOps) =>
         LET t == CASE lastOp' = "customer_to_csv" -> "customer"
                    [] lastOp' = "product_to_csv" -> "product"
                    [] lastOp' = "support_to_csv" -> "support"
             f == CASE lastOp' = "customer_to_csv" -> "customer_data.csv"
                    [] lastOp' = "product_to_csv" -> "product_data.csv"
                    [] lastOp' = "support_to_csv" -> "support_data.csv"
         IN fetch_data(t) # <<>> =>
              /\ exc' = "none"
              /\ files'[f].exists
              /\ files'[f].header # <<>>
              /\ Len(files'[f].lines) = Len(fetch_data(t))
      ]_vars

\* C7: a print, an export or the payment-type filter whose query returns no
\* rows prints its no-records line, writes no file, does not raise, and the
\* session goes on at the menu.
NoRecordsLines ==
    {"No customer found.", "No product found.", "No support found.",
     "No customer data to export.", "No product data to export.",
     "No support data to export."}

C7_EmptyResultNotAnError ==
    [][(pc = "menu" /\ lastOp' \in PrintOps \cup ExportOps) =>
         LET rows == CASE lastOp' \in {"print_customer", "customer_to_csv"} -> customer
                       [] lastOp' \in {"print_product", "product_to_csv"} -> product
                       [] lastOp' \in {"print_support", "support_to_csv"} -> support
                       [] OTHER ->
                            SelectSeq(customer,
                                LAMBDA r : r.payment_type[2] = lastArgs'[1])
         IN rows = <<>> =>
              /\ \E i \in DOMAIN out' : out'[i] \in NoRecordsLines
              /\ files' = files
              /\ exc' = "none"
              /\ pc' = "menu"
      ]_vars

\* C8: in each of the three sub-menus, a choice that is not a listed option
\* prints the invalid-input line and ends the menu loop, and runs no store
\* operation.
C8_InvalidChoiceEndsSession ==
    [][(/\ pc = "menu"
        /\ menu' \in {"1", "2", "3"}
        /\ choice' \notin Listed(menu'))
       => /\ pc' = "done"
          /\ InvalidInput \in {out'[i] : i \in DOMAIN out'}
          /\ lastOp' = "none"
          /\ exc' = "none"
          /\ store' = store
          /\ files' = files
      ]_vars

\* The session ended on an unlisted choice in the add sub-menu.
C8_Witness ==
    /\ pc = "done"
    /\ menu = "1"
    /\ choice = "9"
    /\ out = <<InvalidInput>>

\* C9: no add, print or export runs, and no menu input is read, unless
\* login returned true in this run; when it returned false the run has ended
\* after printing the failure, and the login step changed no table.
C9_LoginGate ==
    /\ []((pc = "menu" \/ menu # "" \/ lastOp \in AddOps \cup PrintOps \cup ExportOps)
            => loginResult = "true")
    /\ [](loginResult = "false" =>
            /\ pc = "done"
            /\ lastOp = "login"
            /\ out = <<"Invalid username or password">>)
    /\ [][(pc = "prompt" /\ lastOp' = "login") =>
            /\ store' = store
            /\ files' = files
            /\ loginResult' = (IF login(lastArgs'[1], lastArgs'[2])
                               THEN "true" ELSE "false")]_vars

\* A login was refused on a store that already holds rows.
C9_Witness ==
    /\ loginResult = "false"
    /\ pc = "done"
    /\ customer # <<>>
    /\ HasRow(lastArgs[1])

\* C10: print sub-menu choice '3' runs the support print consumer: it
\* displays every row of the support table, or 'No support found.' when the
\* table is empty.
C10_PrintSupportChoice ==
    [][(pc = "menu" /\ menu' = "2" /\ choice' = "3") =>
         /\ lastOp' = "print_support"
         /\ printed' = support
         /\ support = <<>> =>
              "No support found." \in {out'[i] : i \in DOMAIN out'}
      ]_vars

\* C11: every repository operation has closed the connection it opened by
\* the time it returns or raises, so the number of open connections is zero
\* after every step of a session.
C11_ConnectionsReleased == openConns = 0

\* C12: every committed row stays in its table with the same field values:
\* each step leaves every table with its old rows as a prefix, and login,
\* the prints, the exports and the filter change no table at all.
ReadOps == {"login"} \cup PrintOps \cup ExportOps

C12_CreateOnly ==
    [][/\ Len(user') >= Len(user)
       /\ SubSeq(user', 1, Len(user)) = user
       /\ Len(product') >= Len(product)
       /\ SubSeq(product', 1, Len(product)) = product
       /\ Len(support') >= Len(support)
       /\ SubSeq(support', 1, Len(support)) = support
       /\ Len(customer') >= Len(customer)
       /\ SubSeq(customer', 1, Len(customer)) = customer
       /\ Len(ticket') >= Len(ticket)
       /\ SubSeq(ticket', 1, Len(ticket)) = ticket
       /\ tables \subseteq tables'
       /\ (pc \in {"prompt", "menu"} /\ lastOp' \in ReadOps) => store' = store
      ]_vars

\* A later run has filtered a store whose tables all but ticket hold rows
\* committed by earlier steps.
C12_Witness ==
    /\ lastOp = "view_customer_given_payment_type"
    /\ Len(user) = 2
    /\ customer # <<>>
    /\ product # <<>>
    /\ support # <<>>
    /\ added # {}
    /\ files["customer_data.csv"].exists

\* C13: a listed export choice whose export completes leaves the menu loop
\* running, and the loop ends only on top-level '4' or on an unlisted
\* sub-menu choice.
C13_ValidChoiceKeepsSession ==
    [][/\ (/\ pc = "menu"
           /\ menu' = "3"
           /\ choice' \in Listed("3")
           /\ exc' = "none") => pc' = "menu"
       /\ (pc = "menu" /\ pc' = "done") =>
             \/ menu' = "4"
             \/ menu' \in {"1", "2", "3"} /\ choice' \notin Listed(menu')
      ]_vars

====
